---- MODULE Spec2Model ----
(***************************************************************************)
(* A model of src/app.py: the movie recommender's recommend() routine, its *)
(* three-stage cascade, and the helpers it drives (title resolution,       *)
(* collection fetch, poster lookup).                                       *)
(*                                                                         *)
(* Python strings that the code transforms or compares (titles, genre      *)
(* names, release dates, the typed input) are sequences of one-character   *)
(* strings, so that lower(), title(), slicing, int() and the lexicographic *)
(* order of sorted() are computed and not assumed.  A JSON object is a     *)
(* record; a key the upstream service left out is a field the record does  *)
(* not have.                                                               *)
(***************************************************************************)
EXTENDS Integers, Sequences, FiniteSets, TLC

VARIABLES
    pc,               \* where recommend() stands, or the exception that ended it
    movie_title,      \* recommend's argument
    results,          \* response['results'] inside fetch_movie_data_from_api
    movie_id,         \* best_match['id']
    movie_info,       \* the dict fetch_movie_data_from_api returns
    original_genres,  \* set(movie_info["genre"])
    original_year,    \* int(movie_info["year"])
    recommendations,  \* the accumulator: <<title, poster, justification>> tuples
    used_titles,      \* titles appended so far
    sorted_similars,  \* Stage 2's sorted candidate list
    idx,              \* Stage 2's position in sorted_similars (next to visit)
    genre_ids,        \* Stage 3's mapped genre ids
    returned,         \* recommend's return value
    issued,           \* the external requests the last step issued
    failures          \* how many external requests have failed so far

vars == <<pc, movie_title, results, movie_id, movie_info, original_genres,
          original_year, recommendations, used_titles, sorted_similars, idx,
          genre_ids, returned, issued, failures>>

(***************************************************************************)
(* Bounds of the model.                                                    *)
(***************************************************************************)
MaxResults == 2      \* longest title-search result list
MaxPopularity == 1   \* popularity scores are 0..MaxPopularity
MaxSimilar == 2      \* longest similar-candidates list
MaxFailures == 1     \* how many external requests may fail in one request

(***************************************************************************)
(* Python strings.                                                         *)
(***************************************************************************)
Lowers == <<"a", "b", "c", "d", "e", "f", "g", "h", "i", "j", "k", "l", "m",
           "n", "o", "p", "q", "r", "s", "t", "u", "v", "w", "x", "y", "z">>
Uppers == <<"A", "B", "C", "D", "E", "F", "G", "H", "I", "J", "K", "L", "M",
           "N", "O", "P", "Q", "R", "S", "T", "U", "V", "W", "X", "Y", "Z">>
Digits == <<"0", "1", "2", "3", "4", "5", "6", "7", "8", "9">>

Range(s) == {s[i] : i \in DOMAIN s}

IsLower(c) == c \in Range(Lowers)
IsUpper(c) == c \in Range(Uppers)
IsCased(c) == IsLower(c) \/ IsUpper(c)
IsDigit(c) == c \in Range(Digits)

IndexIn(s, c) == CHOOSE i \in DOMAIN s : s[i] = c

\* str.lower() and str.upper() on one character
LowerChar(c) == IF IsUpper(c) THEN Lowers[IndexIn(Uppers, c)] ELSE c
UpperChar(c) == IF IsLower(c) THEN Uppers[IndexIn(Lowers, c)] ELSE c

\* str.lower()
Lower(s) == [i \in DOMAIN s |-> LowerChar(s[i])]

\* str.title(): a cased character is upper-cased when it starts a run of
\* cased characters and lower-cased inside one
TitleCase(s) ==
    [i \in DOMAIN s |->
        IF i > 1 /\ IsCased(s[i - 1]) THEN LowerChar(s[i]) ELSE UpperChar(s[i])]

\* s[:n]
Prefix(s, n) == SubSeq(s, 1, IF Len(s) < n THEN Len(s) ELSE n)

\* str.isdigit(): non-empty and every character a digit
IsDigitStr(s) == Len(s) > 0 /\ \A i \in DOMAIN s : IsDigit(s[i])

\* the code point of a character of a release date
Ord(c) == IF c = "-" THEN 45 ELSE 47 + IndexIn(Digits, c)

\* Python's < on two strings: lexicographic on code points
StrLess(a, b) ==
    \E k \in 0..(IF Len(a) < Len(b) THEN Len(a) ELSE Len(b)) :
        /\ \A i \in 1..k : a[i] = b[i]
        /\ \/ k = Len(a) /\ k < Len(b)
           \/ k < Len(a) /\ k < Len(b) /\ Ord(a[k + 1]) < Ord(b[k + 1])

\* int() of a digit string
DigitsValue(s) ==
    LET V[n \in 0..Len(s)] ==
            IF n = 0 THEN 0 ELSE 10 * V[n - 1] + (IndexIn(Digits, s[n]) - 1)
    IN  V[Len(s)]

\* dict.get(key, default)
Get(d, key, default) == IF key \in DOMAIN d THEN d[key] ELSE default

\* Python's None, where a string was expected
None == <<"None">>

\* sorted(seq, key = ..., reverse = True), given the key of each element
\* (keys[i] is the key of seq[i]) and the pairs <<a, b>> of keys with a < b:
\* Python's sort is stable and reverse = True keeps the original order of
\* elements with equal keys
SortedReverse(seq, keys, less) ==
    LET Insert(s, n) ==
            LET p == Cardinality({i \in DOMAIN s : <<keys[s[i]], keys[n]>> \notin less})
            IN  SubSeq(s, 1, p) \o <<n>> \o SubSeq(s, p + 1, Len(s))
        F[n \in 0..Len(seq)] ==
            IF n = 0 THEN <<>> ELSE Insert(F[n - 1], n)
        order == F[Len(seq)]
    IN  [i \in DOMAIN seq |-> seq[order[i]]]

(***************************************************************************)
(* Fixed strings of the program.                                           *)
(***************************************************************************)
NotFoundTitle == <<"M", "o", "v", "i", "e", " ", "n", "o", "t", " ", "f", "o", "u", "n", "d">>
NotFoundUrl == <<"https://via.placeholder.com/300x450?text=Not+Found">>
ErrorUrl == <<"https://via.placeholder.com/300x450?text=Error">>
NoPosterUrl == <<"https://via.placeholder.com/300x450?text=No+Poster">>
ImageBase == "https://image.tmdb.org/t/p/w500"

SameCollection == "From the same series/collection"
SimilarGenreRecency == "Similar movie based on genre and recency"
GenreFallback == "Genre-based fallback recommendation"

\* the default of movie_info.get("year", "2000")
DefaultYear == <<"2", "0", "0", "0">>

\* the default of x.get("release_date", "1900")
DefaultDate == <<"1", "9", "0", "0">>

Cap == 5           \* the most recommendations a request gathers
RecencyYears == 2  \* how far before the resolved movie's year a candidate may lie

(***************************************************************************)
(* What the upstream service can answer: the small sets the responses are  *)
(* drawn from.                                                             *)
(***************************************************************************)
Up == <<"U", "p">>
UP == <<"U", "P">>
uP == <<"u", "P">>
Io == <<"I", "o">>
Oz == <<"O", "z">>
Pi == <<"P", "i">>
Ra == <<"R", "a">>
Ad == <<"A", "d">>

War == <<"W", "a", "r">>
Doc == <<"D", "o", "c">>
Crime == <<"C", "r", "i", "m", "e">>

Date2012 == <<"2", "0", "1", "2", "-", "0", "3", "-", "0", "1">>
Date2010 == <<"2", "0", "1", "0", "-", "0", "7", "-", "1", "6">>
Date2008 == <<"2", "0", "0", "8", "-", "1", "1", "-", "0", "5">>
Date2007 == <<"2", "0", "0", "7", "-", "1", "2", "-", "3", "1">>
Date1899 == <<"1", "8", "9", "9", "-", "1", "2", "-", "3", "1">>

\* what the user may type
Inputs == {<<"u", "P">>, <<"i", "o", " ", "u", "p">>}

\* the title search's result lists: the i-th result has id i and either a
\* popularity score or no popularity field
SearchResult(i) ==
    {[id |-> i]} \cup {[id |-> i, popularity |-> p] : p \in 0..MaxPopularity}

SearchResponses ==
    UNION {{r \in [1..n -> UNION {SearchResult(i) : i \in 1..n}] :
                \A i \in 1..n : r[i].id = i} : n \in 0..MaxResults}

\* the raw records of a details response's similar.results
SimilarPool ==
    { [id |-> 11, title |-> Pi, release_date |-> Date2012],
      [id |-> 12, title |-> Io, release_date |-> Date2008],
      [id |-> 13, title |-> uP, release_date |-> Date2012],
      [id |-> 14, title |-> Oz, release_date |-> Date2007],
      [id |-> 15, title |-> Ra],
      [id |-> 16, title |-> Ad, release_date |-> <<>>],
      [id |-> 17, release_date |-> Date1899] }

\* the genres the details lookup of a candidate answers with
CandidateGenres(id) ==
    CASE id = 11 -> <<[name |-> Crime]>>
      [] id = 12 -> <<[name |-> Doc], [name |-> Crime]>>
      [] id = 13 -> <<[name |-> War]>>
      [] id = 14 -> <<[name |-> War], [name |-> Doc]>>
      [] OTHER   -> <<>>

SimilarLists ==
    UNION {{s \in [1..n -> SimilarPool] :
                \A i, j \in 1..n : s[i] = s[j] => i = j} : n \in 0..MaxSimilar}

GenreLists == {<<>>, <<[name |-> War], [name |-> Doc]>>}

\* the titles of the movies a title search may list, by movie id
MovieTitles == <<Up, Io, UP, Io>>

\* the details responses of the movie with the given id
DetailsResponses(id) ==
    {[title |-> MovieTitles[id], genres |-> g, similar |-> [results |-> s]] :
        g \in GenreLists, s \in SimilarLists}
    \cup
    {[title |-> MovieTitles[id], genres |-> g, similar |-> [results |-> s],
      release_date |-> d] :
        g \in GenreLists, s \in SimilarLists, d \in {<<>>, Date2010}}

\* the members a collection may list
PartsPool ==
    { [title |-> UP, release_date |-> Date2010],
      [title |-> Io, release_date |-> Date2012],
      [title |-> Oz, release_date |-> <<>>],
      [title |-> Ra] }

\* the genre vocabularies /genre/movie/list may answer with
Vocabularies ==
    { [genres |-> <<[id |-> 1, name |-> Lower(War)], [id |-> 2, name |-> Doc]>>],
      [genres |-> <<[id |-> 3, name |-> Crime]>>],
      [status_code |-> 7] }

\* the records a discovery page may list
DiscoverPool ==
    { [title |-> Up], [title |-> Io], [title |-> Pi], [id |-> 19] }

\* response['results'] of the poster search for a title
PosterResults(title) ==
    CASE Lower(title) = Lower(Io) -> <<[id |-> 1, poster_path |-> "/io.jpg"]>>
      [] Lower(title) = Lower(Oz) -> <<[id |-> 2]>>
      [] Lower(title) = Lower(Ra) -> <<>>
      [] OTHER                    -> <<[id |-> 3, poster_path |-> "/p.jpg"]>>

(***************************************************************************)
(* The pure parts of the code.                                             *)
(***************************************************************************)
Popularity(x) == Get(x, "popularity", 0)

\* sorted(response['results'], key = popularity, reverse = True)
SortedByPopularity(res) ==
    LET keys == [i \in DOMAIN res |-> Popularity(res[i])]
    IN  SortedReverse(res, keys, {p \in Range(keys) \X Range(keys) : p[1] < p[2]})

Reverse(seq) == [i \in DOMAIN seq |-> seq[Len(seq) + 1 - i]]

\* a variant of best_match: sorted ascending, last element taken
BestMatchAscendingLast(res) ==
    LET s == Reverse(SortedByPopularity(Reverse(res)))
    IN  s[Len(s)]

\* best_match: the first element of the results sorted by popularity, highest first
BestMatch(res) == SortedByPopularity(res)[1]

\* the dict fetch_movie_data_from_api builds from a details response (the
\* fields recommend never reads -- cast, director, overview, rating -- are
\* left out)
MovieInfo(details) ==
    [ title   |-> Get(details, "title", None),
      genre   |-> [i \in DOMAIN Get(details, "genres", <<>>) |-> details.genres[i].name],
      year    |-> Prefix(Get(details, "release_date", <<>>), 4),
      similar |-> Get(Get(details, "similar", [results |-> <<>>]), "results", <<>>) ]

\* the sort key of a similar candidate
SimilarKey(x) == Get(x, "release_date", DefaultDate)

\* sorted(similar, key = release date, reverse = True)
SortedByDate(similar) ==
    LET keys == [i \in DOMAIN similar |-> SimilarKey(similar[i])]
    IN  SortedReverse(similar, keys,
                      {p \in Range(keys) \X Range(keys) : StrLess(p[1], p[2])})

\* a variant of sorted_similars: reverse = True left out
SortedSimilarsAscending(similar) ==
    Reverse(SortedByDate(Reverse(similar)))

\* sorted_similars
SortedSimilars(similar) == SortedByDate(similar)

\* the member filter of fetch_movie_collection
IsDatedPart(item) ==
    /\ "release_date" \in DOMAIN item
    /\ IsDigitStr(Prefix(item.release_date, 4))

\* Stage 1's test of a member title against the resolved movie's title
IsOtherTitle(title) == Lower(title) # Lower(movie_info.title)

\* Python's truthiness of movie.get(key) for a string value
Truthy(movie, key) == key \in DOMAIN movie /\ movie[key] # <<>>

\* a variant of the recency test: the window one year too wide
RecentEnoughWide(year) == ~(year < original_year - (RecencyYears + 1))

\* Stage 2's recency test
RecentEnough(year) == ~(year < original_year - RecencyYears)

\* Stage 2's genre test
SharesGenre(movie_genres) == (original_genres \cap movie_genres) # {}

\* variants of the length tests: off by one
FullLate(recs) == Len(recs) > Cap
NotFullLoose(recs) == Len(recs) <= Cap

\* the guards and break tests on the accumulator's length
Full(recs) == Len(recs) >= Cap
NotFull(recs) == Len(recs) < Cap

\* Stage 3's mapping of the resolved movie's genre names to vocabulary ids
GenreIds(genre_data) ==
    LET vocab == Get(genre_data, "genres", <<>>)
    IN  {vocab[i].id : i \in {j \in DOMAIN vocab :
            \E g \in original_genres : Lower(vocab[j].name) = Lower(g)}}

\* fetch_poster's result for a search response that arrived
PosterUrl(res) ==
    IF res # <<>> /\ "poster_path" \in DOMAIN res[1]
    THEN <<ImageBase, res[1].poster_path>>
    ELSE NoPosterUrl

\* a variant of the not-found return value: the input echoed as typed
NotFoundRaw(typed) ==
    [recs |-> <<<<NotFoundTitle, NotFoundUrl, "">>>>, info |-> typed]

\* recommend's not-found return value
NotFound(typed) ==
    [recs |-> <<<<NotFoundTitle, NotFoundUrl, "">>>>, info |-> TitleCase(typed)]

(***************************************************************************)
(* The state before a request.                                             *)
(***************************************************************************)
NoInfo == [title |-> None, genre |-> <<>>, year |-> <<>>, similar |-> <<>>]
NoReturn == [recs |-> <<>>, info |-> None]

Init ==
    /\ pc = "idle"
    /\ movie_title = <<>>
    /\ results = <<>>
    /\ movie_id = 0
    /\ movie_info = NoInfo
    /\ original_genres = {}
    /\ original_year = 0
    /\ recommendations = <<>>
    /\ used_titles = {}
    /\ sorted_similars = <<>>
    /\ idx = 0
    /\ genre_ids = {}
    /\ returned = NoReturn
    /\ issued = {}
    /\ failures = 0

CanFail == failures < MaxFailures

\* a request raised a network error
Fail == CanFail /\ failures' = failures + 1
NoFail == failures' = failures

(***************************************************************************)
(* fetch_poster: the outcomes of one poster lookup.  A network error is    *)
(* caught and answered with the error placeholder; a response without a    *)
(* 'results' key raises KeyError outside the try block.                    *)
(***************************************************************************)
FetchPoster(title) ==
    {[url |-> PosterUrl(PosterResults(title)), failed |-> FALSE, raised |-> FALSE]}
    \cup
    (IF CanFail
     THEN {[url |-> ErrorUrl, failed |-> TRUE, raised |-> FALSE],
           [url |-> ErrorUrl, failed |-> TRUE, raised |-> TRUE]}
     ELSE {})

Failed(o) == failures' = failures + (IF o.failed THEN 1 ELSE 0)

Return(recs) ==
    /\ pc' = "done"
    /\ returned' = [recs |-> recs, info |-> movie_info]

ReturnNotFound(typed) ==
    /\ pc' = "done"
    /\ returned' = NotFound(typed)

(***************************************************************************)
(* recommend(movie_title), up to the title search's answer                 *)
(* (fetch_movie_data_from_api, the search request and best_match).         *)
(***************************************************************************)
Search(typed) ==
    /\ pc = "idle"
    /\ movie_title' = typed
    /\ issued' = {"search"}
    /\ \/ /\ Fail                     \* the request raises: None, None
          /\ ReturnNotFound(typed)
          /\ UNCHANGED <<results, movie_id>>
       \/ /\ Fail                     \* a response without 'results': KeyError
          /\ pc' = "KeyError"
          /\ UNCHANGED <<results, movie_id, returned>>
       \/ /\ NoFail
          /\ \E res \in SearchResponses :
                /\ results' = res
                /\ IF res # <<>>
                   THEN /\ movie_id' = BestMatch(res).id
                        /\ pc' = "details"
                        /\ UNCHANGED returned
                   ELSE /\ ReturnNotFound(typed)
                        /\ UNCHANGED movie_id
    /\ UNCHANGED <<movie_info, original_genres, original_year, recommendations,
                   used_titles, sorted_similars, idx, genre_ids>>

(***************************************************************************)
(* The details request of fetch_movie_data_from_api, its return, and       *)
(* recommend's set-up of the cascade's state.                              *)
(***************************************************************************)
Details ==
    /\ pc = "details"
    /\ issued' = {"details"}
    /\ results' = <<>>
    /\ \/ /\ Fail
          /\ ReturnNotFound(movie_title)
          /\ UNCHANGED <<movie_info, original_genres, original_year>>
       \/ /\ NoFail
          /\ \E details \in DetailsResponses(movie_id) :
                LET info == MovieInfo(details)
                    year == Get(info, "year", DefaultYear)
                IN
                /\ movie_info' = info
                /\ original_genres' = Range(Get(info, "genre", <<>>))
                /\ IF IsDigitStr(year)
                   THEN /\ original_year' = DigitsValue(year)
                        /\ pc' = "collection"
                   ELSE /\ pc' = "ValueError"    \* int("") raises
                        /\ UNCHANGED original_year
                /\ UNCHANGED returned
    /\ UNCHANGED <<movie_title, movie_id, recommendations, used_titles,
                   sorted_similars, idx, genre_ids>>

(***************************************************************************)
(* fetch_movie_collection.  The member list is not held in the state: each *)
(* Stage 1 step draws the next member that passes the release-date filter. *)
(***************************************************************************)
FetchCollection ==
    /\ pc = "collection"
    /\ \/ /\ Fail                          \* the movie request raises
          /\ issued' = {"movie"}
          /\ pc' = "guard2"
       \/ /\ NoFail                        \* no belongs_to_collection
          /\ issued' = {"movie"}
          /\ pc' = "guard2"
       \/ /\ Fail                          \* the collection request raises
          /\ issued' = {"movie", "collection"}
          /\ pc' = "guard2"
       \/ /\ NoFail
          /\ issued' = {"movie", "collection"}
          /\ pc' = "stage1"
    /\ UNCHANGED <<movie_title, results, movie_id, movie_info, original_genres,
                   original_year, recommendations, used_titles, sorted_similars,
                   idx, genre_ids, returned>>

AfterStage1(recs) == IF Full(recs) THEN "guard2" ELSE "stage1"

Stage1Step(item) ==
    /\ pc = "stage1"
    /\ IsDatedPart(item)
    /\ IF IsOtherTitle(item.title)
       THEN \E o \in FetchPoster(item.title) :
                /\ issued' = {"poster"}
                /\ Failed(o)
                /\ IF o.raised
                   THEN /\ pc' = "KeyError"
                        /\ UNCHANGED <<recommendations, used_titles>>
                   ELSE /\ recommendations' =
                               Append(recommendations, <<item.title, o.url, SameCollection>>)
                        /\ used_titles' = used_titles \cup {item.title}
                        /\ pc' = AfterStage1(recommendations')
       ELSE /\ issued' = {}
            /\ pc' = AfterStage1(recommendations)
            /\ UNCHANGED <<recommendations, used_titles, failures>>
    /\ UNCHANGED <<movie_title, results, movie_id, movie_info, original_genres,
                   original_year, sorted_similars, idx, genre_ids, returned>>

\* the member list is exhausted
Stage1End ==
    /\ pc = "stage1"
    /\ pc' = "guard2"
    /\ issued' = {}
    /\ UNCHANGED <<movie_title, results, movie_id, movie_info, original_genres,
                   original_year, recommendations, used_titles, sorted_similars,
                   idx, genre_ids, returned, failures>>

(***************************************************************************)
(* Stage 2: the guard and the sort, then one candidate per step.           *)
(***************************************************************************)
Guard2 ==
    /\ pc = "guard2"
    /\ issued' = {}
    /\ IF NotFull(recommendations)
       THEN /\ sorted_similars' = SortedSimilars(movie_info.similar)
            /\ idx' = 1
            /\ pc' = IF sorted_similars' = <<>> THEN "guard3" ELSE "stage2"
       ELSE /\ pc' = "guard3"
            /\ UNCHANGED <<sorted_similars, idx>>
    /\ UNCHANGED <<movie_title, results, movie_id, movie_info, original_genres,
                   original_year, recommendations, used_titles, genre_ids,
                   returned, failures>>

\* where the loop stands after a candidate: the break, or the next
\* candidate, or the end of the list
AfterStage2(recs, broke) ==
    IF broke \/ idx >= Len(sorted_similars) THEN "guard3" ELSE "stage2"

Stage2Skip(lookups) ==
    /\ issued' = lookups
    /\ pc' = AfterStage2(recommendations, FALSE)
    /\ UNCHANGED <<recommendations, used_titles>>

Stage2Step ==
    /\ pc = "stage2"
    /\ idx' = idx + 1
    /\ LET movie == sorted_similars[idx]
           title == Get(movie, "title", None)
       IN  IF \/ ~Truthy(movie, "title")
              \/ ~Truthy(movie, "release_date")
              \/ title \in used_titles
           THEN Stage2Skip({}) /\ NoFail
           ELSE IF ~IsDigitStr(Prefix(movie.release_date, 4))
           THEN /\ pc' = "ValueError"  \* int() raises
                /\ issued' = {}
                /\ NoFail
                /\ UNCHANGED <<recommendations, used_titles>>
           ELSE IF ~RecentEnough(DigitsValue(Prefix(movie.release_date, 4)))
           THEN Stage2Skip({}) /\ NoFail
           ELSE \/ Stage2Skip({"genre"}) /\ Fail      \* the genre lookup raises
                \/ LET genres == CandidateGenres(movie.id)
                       movie_genres == {genres[i].name : i \in DOMAIN genres}
                   IN  IF ~SharesGenre(movie_genres)
                       THEN Stage2Skip({"genre"}) /\ NoFail
                       ELSE \E o \in FetchPoster(title) :
                               /\ issued' = {"genre", "poster"}
                               /\ Failed(o)
                               /\ IF o.raised
                                  THEN /\ pc' = "KeyError"
                                       /\ UNCHANGED <<recommendations, used_titles>>
                                  ELSE /\ recommendations' =
                                              Append(recommendations,
                                                     <<title, o.url, SimilarGenreRecency>>)
                                       /\ used_titles' = used_titles \cup {title}
                                       /\ pc' = AfterStage2(recommendations',
                                                            Full(recommendations'))
    /\ UNCHANGED <<movie_title, results, movie_id, movie_info, original_genres,
                   original_year, sorted_similars, genre_ids, returned>>

(***************************************************************************)
(* Stage 3: the guard and the genre-vocabulary request, the discovery      *)
(* request, then one discovery result per step.  Neither request is inside *)
(* a try block.  The result page is not held in the state: each step draws *)
(* its next record.                                                        *)
(***************************************************************************)
Guard3 ==
    /\ pc = "guard3"
    /\ IF NotFull(recommendations)
       THEN /\ issued' = {"genre_list"}
            /\ \/ /\ Fail
                  /\ pc' = "RequestException"
                  /\ UNCHANGED <<genre_ids, returned>>
               \/ /\ NoFail
                  /\ \E genre_data \in Vocabularies :
                        /\ genre_ids' = GenreIds(genre_data)
                        /\ IF genre_ids' # {}
                           THEN pc' = "discover" /\ UNCHANGED returned
                           ELSE Return(recommendations)
       ELSE /\ issued' = {}
            /\ NoFail
            /\ Return(recommendations)
            /\ UNCHANGED genre_ids
    /\ UNCHANGED <<movie_title, results, movie_id, movie_info, original_genres,
                   original_year, recommendations, used_titles, sorted_similars, idx>>

Discover ==
    /\ pc = "discover"
    /\ issued' = {"discover"}
    /\ \/ Fail /\ pc' = "RequestException"
       \/ NoFail /\ pc' = "stage3"
    /\ UNCHANGED <<movie_title, results, movie_id, movie_info, original_genres,
                   original_year, recommendations, used_titles, sorted_similars,
                   idx, genre_ids, returned>>

Stage3Step(movie) ==
    /\ pc = "stage3"
    /\ LET title == Get(movie, "title", None) IN
       IF Truthy(movie, "title") /\ title \notin used_titles
       THEN \E o \in FetchPoster(title) :
                /\ issued' = {"poster"}
                /\ Failed(o)
                /\ IF o.raised
                   THEN /\ pc' = "KeyError"
                        /\ UNCHANGED <<recommendations, used_titles, returned>>
                   ELSE /\ recommendations' =
                               Append(recommendations, <<title, o.url, GenreFallback>>)
                        /\ used_titles' = used_titles \cup {title}
                        /\ IF Full(recommendations')
                           THEN Return(recommendations')
                           ELSE pc' = "stage3" /\ UNCHANGED returned
       ELSE /\ issued' = {}
            /\ NoFail
            /\ UNCHANGED <<recommendations, used_titles>>
            /\ IF Full(recommendations)
               THEN Return(recommendations)
               ELSE pc' = "stage3" /\ UNCHANGED returned
    /\ UNCHANGED <<movie_title, results, movie_id, movie_info, original_genres,
                   original_year, sorted_similars, idx, genre_ids>>

\* the result page is exhausted
Stage3End ==
    /\ pc = "stage3"
    /\ issued' = {}
    /\ Return(recommendations)
    /\ UNCHANGED <<movie_title, results, movie_id, movie_info, original_genres,
                   original_year, recommendations, used_titles, sorted_similars,
                   idx, genre_ids, failures>>

Next ==
    \/ \E typed \in Inputs : Search(typed)
    \/ Details
    \/ FetchCollection
    \/ \E item \in PartsPool : Stage1Step(item)
    \/ Stage1End
    \/ Guard2
    \/ Stage2Step
    \/ Guard3
    \/ \E movie \in DiscoverPool : Stage3Step(movie)
    \/ Stage3End
    \/ Discover

Spec == Init /\ [][Next]_vars

(***************************************************************************)
(* The claims.                                                             *)
(***************************************************************************)
Found == movie_info # NoInfo
Entries(recs, tag) == {i \in DOMAIN recs : recs[i][3] = tag}
Similar == Range(movie_info.similar)

\* C1: the accumulator never holds more than 5 entries, and neither does the
\* list recommend returns.
C1_AtMostFive ==
    /\ Len(recommendations) <= 5
    /\ pc = "done" => Len(returned.recs) <= 5

\* C1's case: a returned list of exactly 5 entries that all three stages
\* contributed to.
C1_Witness ==
    /\ pc = "done"
    /\ Len(returned.recs) = 5
    /\ \A tag \in {SameCollection, SimilarGenreRecency, GenreFallback} :
          Entries(returned.recs, tag) # {}

\* C2: no title appears twice in the list recommend returns.
C2_NoTitleTwice ==
    pc = "done" =>
        \A i, j \in DOMAIN returned.recs :
            returned.recs[i][1] = returned.recs[j][1] => i = j

\* C3: no entry of the returned list has the resolved movie's title, compared
\* case-insensitively.
C3_NeverTheResolvedTitle ==
    (pc = "done" /\ Found) =>
        \A i \in DOMAIN returned.recs :
            Lower(returned.recs[i][1]) # Lower(movie_info.title)

\* C4: once the title is resolved, no failure of a later external lookup
\* (a network error, or a response without the expected fields) ends the
\* request with an exception.
C4_LookupFailuresSwallowed ==
    Found => pc \notin {"RequestException", "KeyError"}

\* title-casing, stated on its own: the same letters, upper case exactly
\* at the start of each run of letters
IsTitleCased(t, s) ==
    /\ Len(t) = Len(s)
    /\ \A i \in DOMAIN s :
          /\ LowerChar(t[i]) = LowerChar(s[i])
          /\ IsCased(s[i]) =>
                (IsUpper(t[i]) <=> (i = 1 \/ ~IsCased(s[i - 1])))

CascadeUntouched ==
    /\ recommendations = <<>>
    /\ used_titles = {}
    /\ sorted_similars = <<>>
    /\ genre_ids = {}
    /\ issued \subseteq {"search", "details"}

\* C5: when the title search fails or lists nothing, or the details request
\* fails, recommend returns the one 'Movie not found' entry with the
\* 'Not Found' placeholder and an empty justification, paired with the
\* title-cased input, and no stage of the cascade has run.
C5_NotFoundSentinel ==
    /\ (issued = {"search"} /\ results = <<>> /\ pc # "KeyError") =>
            (pc = "done" /\ ~Found)
    /\ (issued = {"details"} /\ failures > 0) => (pc = "done" /\ ~Found)
    /\ (pc = "done" /\ ~Found) =>
            /\ Len(returned.recs) = 1
            /\ returned.recs[1][1] = NotFoundTitle
            /\ returned.recs[1][2] = NotFoundUrl
            /\ returned.recs[1][3] = ""
            /\ IsTitleCased(returned.info, movie_title)
            /\ CascadeUntouched

\* C5's case: the details request failed for a two-word input.
C5_Witness ==
    /\ pc = "done"
    /\ ~Found
    /\ issued = {"details"}
    /\ movie_title = <<"i", "o", " ", "u", "p">>
    /\ returned.info = <<"I", "o", " ", "U", "p">>

\* C6: a resolved movie without a release year does not make recommend
\* fail: originalYear is 2000 and the cascade runs.
C6_MissingYearDefaults ==
    (Found /\ movie_info.year = <<>>) =>
        (pc # "ValueError" /\ original_year = DigitsValue(DefaultYear))

\* the year a release date starts with
YearOf(date) == DigitsValue(SubSeq(date, 1, 4))

\* a similar candidate that passes both of Stage 2's tests
Eligible(m) ==
    /\ "title" \in DOMAIN m
    /\ "release_date" \in DOMAIN m
    /\ Len(m.release_date) >= 4
    /\ YearOf(m.release_date) >= original_year - 2
    /\ \E i \in DOMAIN CandidateGenres(m.id) :
          CandidateGenres(m.id)[i].name \in Range(movie_info.genre)

\* C7: every Stage 2 entry comes from a similar candidate that is at most 2
\* years older than the resolved movie and shares a genre with it; a step
\* of Stage 2 appends only the candidate it visits, only when that candidate
\* passes both tests, and never when the candidate's genre lookup failed.
C7_Stage2Filter ==
    /\ [](\A i \in Entries(recommendations, SimilarGenreRecency) :
            \E m \in Similar : Eligible(m) /\ m.title = recommendations[i][1])
    /\ [][(pc = "stage2" /\ recommendations' # recommendations) =>
            LET m == sorted_similars[idx]
                last == recommendations'[Len(recommendations')]
            IN  /\ Eligible(m)
                /\ Len(recommendations') = Len(recommendations) + 1
                /\ last[1] = m.title
                /\ last[3] = SimilarGenreRecency
                /\ failures' # failures => last[2] = ErrorUrl]_vars

\* C7's case: Stage 2 has appended the candidate released exactly 2 years
\* before the resolved movie, and has passed over an older one.
C7_Witness ==
    /\ pc = "guard3"
    /\ \E i \in Entries(recommendations, SimilarGenreRecency) :
          \E m \in Similar :
              /\ Eligible(m)
              /\ m.title = recommendations[i][1]
              /\ YearOf(m.release_date) = original_year - 2
    /\ \E m \in Similar :
          /\ "release_date" \in DOMAIN m
          /\ Len(m.release_date) >= 4
          /\ YearOf(m.release_date) = original_year - 3

\* C8: a stage starts only at its guard and with fewer than 5 entries, and
\* once the list holds 5 entries no step appends, visits a candidate or
\* issues an external request.
C8_SequentialEarlyStop ==
    [][/\ Len(recommendations) >= 5 =>
            /\ recommendations' = recommendations
            /\ idx' = idx
            /\ issued' = {}
            /\ pc' \in {"guard3", "done"}
       /\ (pc' = "stage2" /\ pc # "stage2") =>
            (pc = "guard2" /\ Len(recommendations) < 5)
       /\ (pc' = "discover" \/ "genre_list" \in issued') =>
            (pc = "guard3" /\ Len(recommendations) < 5)
       /\ pc' = "guard2" => pc \in {"collection", "stage1"}
       /\ pc' = "guard3" => pc \in {"guard2", "stage2"}]_vars

\* C8's case: Stage 2 reached 5 entries with a candidate still unvisited.
C8_Witness ==
    /\ pc = "guard3"
    /\ Len(recommendations) = 5
    /\ recommendations[5][3] = SimilarGenreRecency
    /\ idx <= Len(sorted_similars)

\* the sort key as the claim has it: a missing or empty date counts as "1900"
ClaimedKey(x) ==
    IF "release_date" \in DOMAIN x /\ x.release_date # <<>>
    THEN x.release_date
    ELSE <<"1", "9", "0", "0">>

\* the sort key with only a missing date counting as "1900"
AmendedKey(x) ==
    IF "release_date" \in DOMAIN x THEN x.release_date ELSE <<"1", "9", "0", "0">>

Stage2Sorted == pc \in {"stage2"} \/ (sorted_similars # <<>>)

\* C9 as claimed: Stage 2's visiting order is descending in the release
\* date, a missing or empty date counting as "1900".
C9_DescendingEmptyAs1900 ==
    \A i, j \in DOMAIN sorted_similars :
        i < j => ~StrLess(ClaimedKey(sorted_similars[i]), ClaimedKey(sorted_similars[j]))

\* C9 amended: Stage 2 visits exactly the similar candidates, in descending
\* order of the release-date string, a missing date counting as "1900" and
\* an empty date as the empty string (after every dated candidate);
\* candidates with equal keys keep their upstream order; and the Stage 2
\* entries appear in non-increasing release-date order.
C9_DescendingMissingAs1900 ==
    /\ Stage2Sorted =>
         /\ Len(sorted_similars) = Len(movie_info.similar)
         /\ Range(sorted_similars) = Similar
    /\ \A i, j \in DOMAIN sorted_similars :
          i < j =>
            /\ ~StrLess(AmendedKey(sorted_similars[i]), AmendedKey(sorted_similars[j]))
            /\ AmendedKey(sorted_similars[i]) = AmendedKey(sorted_similars[j]) =>
                 \E a, b \in DOMAIN movie_info.similar :
                     /\ a < b
                     /\ movie_info.similar[a] = sorted_similars[i]
                     /\ movie_info.similar[b] = sorted_similars[j]
    /\ \A i, j \in Entries(recommendations, SimilarGenreRecency) :
          i < j =>
            \E a, b \in {m \in Similar : {"title", "release_date"} \subseteq DOMAIN m} :
                /\ a.title = recommendations[i][1]
                /\ b.title = recommendations[j][1]
                /\ ~StrLess(a.release_date, b.release_date)

\* C9's case: upstream listed a candidate dated before 1900 ahead of one
\* without a release date, and Stage 2 has visited them the other way round.
C9_Witness ==
    /\ pc = "guard3"
    /\ Len(sorted_similars) = 2
    /\ idx > Len(sorted_similars)
    /\ "release_date" \notin DOMAIN sorted_similars[1]
    /\ "release_date" \in DOMAIN sorted_similars[2]
    /\ StrLess(<<>>, sorted_similars[2].release_date)
    /\ StrLess(sorted_similars[2].release_date, <<"1", "9", "0", "0">>)
    /\ movie_info.similar = <<sorted_similars[2], sorted_similars[1]>>

\* a search result's popularity, 0 when it has none
Score(r) == IF "popularity" \in DOMAIN r THEN r.popularity ELSE 0

\* C10: the resolved movie is the search result with the highest popularity
\* (0 for a result without one), the first such in upstream order.
C10_MostPopularFirstWins ==
    pc = "details" =>
        \E k \in DOMAIN results :
            /\ results[k].id = movie_id
            /\ \A j \in DOMAIN results : Score(results[j]) <= Score(results[k])
            /\ \A j \in 1..(k - 1) : Score(results[j]) < Score(results[k])

\* C10's case: the first result has no popularity field, the second scores 0,
\* and the first is chosen.
C10_Witness ==
    /\ pc = "details"
    /\ Len(results) >= 2
    /\ "popularity" \notin DOMAIN results[1]
    /\ \A j \in 2..Len(results) : Score(results[j]) = 0
    /\ "popularity" \in DOMAIN results[2]
    /\ movie_id = results[1].id

====
